---- MODULE Spec2Model ----
(***************************************************************************)
(* Model of midea_beautiful_dehumidifier/cli.py: the command-line entry    *)
(* point cli(), which parses the arguments and dispatches one of the three *)
(* sub-commands discover / status / set onto the collaborators             *)
(* find_appliances, connect_to_cloud, appliance_state and                  *)
(* LanDevice.set_state, printing a state block with output().              *)
(*                                                                         *)
(* One behaviour is one invocation of cli().  Every collaborator call is   *)
(* one step: it appends the call (with its arguments and its outcome) to   *)
(* `calls`, so that the order of the calls of a command can be read off.   *)
(* A collaborator may return normally or raise; an exception is not caught *)
(* anywhere in cli() and ends the command.                                 *)
(***************************************************************************)
EXTENDS Naturals, Sequences, FiniteSets

VARIABLES
    argv,        \* the command line given to the program
    args,        \* the Namespace produced by parser.parse_args()
    pc,          \* position of cli()
    exit,        \* "running", "ok" (cli returned), "usage" (argparse exit), "exception"
    cloud,       \* the session returned by connect_to_cloud, or NoCloud
    appliance,   \* the local `appliance` of the status / set branch
    appliances,  \* the collection returned by find_appliances
    idx,         \* position of the for loop of the discover branch
    calls,       \* collaborator calls made so far, in order
    printed,     \* state blocks printed by output(), in order
    log          \* messages given to _LOGGER.error, in order

vars == <<argv, args, pc, exit, cloud, appliance, appliances, idx, calls, printed, log>>

(***************************************************************************)
(* Bounds                                                                  *)
(***************************************************************************)
\* largest number of appliances a discovery returns
MaxAppliances == 2
\* largest number of --network ranges on the command line
MaxNetworks == 2

(***************************************************************************)
(* Values                                                                  *)
(***************************************************************************)
\* an option that does not occur on the command line
Absent == "<absent>"
\* Python's None for the `appliance` local
None == [kind |-> "None"]
\* no cloud session has been created
NoCloud == "no-cloud"
\* args.network when --network is not given (None); nargs="+" never
\* produces an empty list, so the empty sequence stands for None only
NoNetworks == << >>

DEFAULT_APPKEY == "DEFAULT_APPKEY"
DEFAULT_APP_ID == "DEFAULT_APP_ID"

MissingMsg == "Missing token/key or cloud credentials"
UnableMsg  == "Unable to get appliance status"

\* the values of --humidity / --fan / --mode / --ion / --on (Absent: not given)
NoMutation == [humidity |-> Absent, fan |-> Absent, mode |-> Absent,
               ion |-> Absent, on |-> Absent]
Mutations ==
    { NoMutation,
      [NoMutation EXCEPT !.humidity = "55"],
      [NoMutation EXCEPT !.fan = "high"],
      [humidity |-> "55", fan |-> "high", mode |-> "2", ion |-> "1", on |-> "1"] }

RECURSIVE RangeList(_)
RangeList(n) == IF n = 0 THEN << >> ELSE Append(RangeList(n - 1), "192.0.0.0/24")

\* the possible values of --network: absent, or one or more ranges
NetworkArgs == { RangeList(n) : n \in 0..MaxNetworks }

DiscoverArgv ==
    [command : {"discover"}, ip : {Absent}, token : {Absent}, key : {Absent},
     account : {Absent, "", "acc"}, password : {Absent, "", "pw"},
     appkey : {Absent}, appid : {Absent, "1017"},
     credentials : BOOLEAN, network : NetworkArgs, mutation : {NoMutation}]

StatusArgv ==
    [command : {"status"}, ip : {Absent, "10.0.0.5"},
     token : {Absent, "", "TOK"}, key : {Absent, "", "KEY"},
     account : {Absent, "", "acc"}, password : {Absent, "", "pw"},
     appkey : {Absent}, appid : {Absent},
     credentials : BOOLEAN, network : {NoNetworks}, mutation : {NoMutation}]

SetArgv ==
    [command : {"set"}, ip : {Absent, "10.0.0.5"},
     token : {Absent, "", "TOK"}, key : {Absent, "", "KEY"},
     account : {Absent, "", "acc"}, password : {Absent, "", "pw"},
     appkey : {Absent}, appid : {Absent},
     credentials : BOOLEAN, network : {NoNetworks}, mutation : Mutations]

Argv == DiscoverArgv \cup StatusArgv \cup SetArgv

\* the Namespace before parse_args has run
NoArgs ==
    [command |-> "", ip |-> "", token |-> "", key |-> "", account |-> "",
     password |-> "", appkey |-> "", appid |-> "", credentials |-> FALSE,
     network |-> NoNetworks, mutation |-> NoMutation]

(***************************************************************************)
(* Argument parsing                                                        *)
(***************************************************************************)
\* an option declared with default=d
WithDefault(v, d) == IF v = Absent THEN d ELSE v

\* the options declared required=True of the sub-command are all present
RequiredPresent(a) ==
    /\ a.account # Absent
    /\ a.password # Absent
    /\ (a.command \in {"status", "set"} => a.ip # Absent)

\* the Namespace parse_args builds from a command line that it accepts
Namespace(a) ==
    [command |-> a.command,
     ip |-> a.ip,
     token |-> IF a.command = "discover" THEN "" ELSE WithDefault(a.token, ""),
     key |-> IF a.command = "discover" THEN "" ELSE WithDefault(a.key, ""),
     account |-> a.account,
     password |-> a.password,
     appkey |-> WithDefault(a.appkey, DEFAULT_APPKEY),
     appid |-> WithDefault(a.appid, DEFAULT_APP_ID),
     credentials |-> a.credentials,
     network |-> a.network,
     mutation |-> a.mutation]

Init ==
    /\ argv \in Argv
    /\ args = NoArgs
    /\ pc = "parse"
    /\ exit = "running"
    /\ cloud = NoCloud
    /\ appliance = None
    /\ appliances = << >>
    /\ idx = 1
    /\ calls = << >>
    /\ printed = << >>
    /\ log = << >>

\* args = parser.parse_args(): a missing required option ends the program
ParseArgs ==
    /\ pc = "parse"
    /\ IF RequiredPresent(argv)
         THEN /\ args' = Namespace(argv)
              /\ pc' = "dispatch"
              /\ exit' = exit
         ELSE /\ args' = args
              /\ pc' = "done"
              /\ exit' = "usage"
    /\ UNCHANGED <<argv, cloud, appliance, appliances, idx, calls, printed, log>>

(***************************************************************************)
(* Collaborators.  Their code is not part of cli.py; the outcomes below    *)
(* are the ones their contracts allow.                                     *)
(***************************************************************************)
\* connect_to_cloud returns a session or raises
CloudOutcomes == {"session", "AuthError"}
\* appliance_state returns a handle, returns None, or raises
ReadOutcomes == {"handle", "none", "IOError"}
\* LanDevice.set_state returns or raises
MutateOutcomes == {"ok", "IOError"}

\* the handle appliance_state returns: it carries the credentials it was
\* given (or the ones the cloud resolved) and `readAt`, the position in
\* `calls` of the read its state snapshot comes from
Handle(ip, token, key, at) ==
    [kind |-> "LanDevice", id |-> 1, ip |-> ip, token |-> token, key |-> key,
     readAt |-> at]

\* the collection find_appliances returns when n appliances respond
Discovered(n, at) ==
    [i \in 1..n |->
        [kind |-> "LanDevice", id |-> i, ip |-> "10.0.0.5",
         token |-> "CLOUD_TOK", key |-> "CLOUD_KEY", readAt |-> at]]

\* the block output(appliance, show_credentials) prints
Block(app, show_credentials) ==
    [id |-> app.id, ip |-> app.ip, readAt |-> app.readAt,
     credentials |-> IF show_credentials THEN <<app.token, app.key>> ELSE << >>]

(***************************************************************************)
(* Conditions of the status / set branches                                 *)
(***************************************************************************)
\* a slip of `not args.token`: the cloud is used whenever the pair is incomplete
NoTokenOrNoKey(a) == a.token = "" \/ a.key = ""

\* a slip of `not args.token`: the cloud is used only when neither is given
NoTokenAndNoKey(a) == a.token = "" /\ a.key = ""

\* `not args.token`
NoToken(a) == a.token = ""

\* a slip of `args.account and args.password`: `or` for `and`
HasAccountOrPassword(a) == a.account # "" \/ a.password # ""

\* `args.account and args.password`
HasCloudCredentials(a) == a.account # "" /\ a.password # ""

\* `appliance is not None`
IsAppliance(app) == app # None

(***************************************************************************)
(* discover                                                                *)
(***************************************************************************)
\* a slip of the discover branch: a command without --network is refused
DiscoverNeedsNetwork ==
    /\ pc = "dispatch"
    /\ args.command = "discover"
    /\ IF args.network = NoNetworks
         THEN /\ log' = Append(log, "Missing network")
              /\ calls' = calls
              /\ appliances' = appliances
              /\ pc' = "done"
              /\ exit' = "ok"
         ELSE /\ log' = log
              /\ calls' = Append(calls,
                     [op |-> "find_appliances", appkey |-> args.appkey,
                      account |-> args.account, password |-> args.password,
                      appid |-> args.appid, networks |-> args.network,
                      outcome |-> "returned"])
              /\ appliances' = Discovered(1, Len(calls) + 1)
              /\ pc' = "discover_loop"
              /\ exit' = exit
    /\ idx' = 1
    /\ UNCHANGED <<argv, args, cloud, appliance, printed>>

\* appliances = find_appliances(appkey=..., account=..., password=...,
\*                              appid=..., networks=args.network)
Discover ==
    /\ pc = "dispatch"
    /\ args.command = "discover"
    /\ \E n \in 0..(MaxAppliances + 1) :
          LET raised == n > MaxAppliances
              call == [op |-> "find_appliances", appkey |-> args.appkey,
                       account |-> args.account, password |-> args.password,
                       appid |-> args.appid, networks |-> args.network,
                       outcome |-> IF raised THEN "raised" ELSE "returned"]
          IN  /\ calls' = Append(calls, call)
              /\ IF raised
                   THEN /\ appliances' = appliances
                        /\ pc' = "done"
                        /\ exit' = "exception"
                   ELSE /\ appliances' = Discovered(n, Len(calls) + 1)
                        /\ pc' = "discover_loop"
                        /\ exit' = exit
    /\ idx' = 1
    /\ UNCHANGED <<argv, args, cloud, appliance, printed, log>>

\* for appliance in appliances: output(appliance, args.credentials)
DiscoverOutput ==
    /\ pc = "discover_loop"
    /\ idx <= Len(appliances)
    /\ printed' = Append(printed, Block(appliances[idx], args.credentials))
    /\ idx' = idx + 1
    /\ UNCHANGED <<argv, args, pc, exit, cloud, appliance, appliances, calls, log>>

\* the loop is exhausted and cli() returns
DiscoverEnd ==
    /\ pc = "discover_loop"
    /\ idx > Len(appliances)
    /\ pc' = "done"
    /\ exit' = "ok"
    /\ UNCHANGED <<argv, args, cloud, appliance, appliances, idx, calls, printed, log>>

(***************************************************************************)
(* Steps shared in shape by the status and the set branch (the code of     *)
(* the two branches is the same text twice)                                *)
(***************************************************************************)
\* _LOGGER.error("Missing token/key or cloud credentials"); return
MissingCredentials(command) ==
    /\ pc = "dispatch"
    /\ args.command = command
    /\ NoToken(args)
    /\ ~HasCloudCredentials(args)
    /\ log' = Append(log, MissingMsg)
    /\ pc' = "done"
    /\ exit' = "ok"
    /\ UNCHANGED <<argv, args, cloud, appliance, appliances, idx, calls, printed>>

\* cloud = connect_to_cloud(args.account, args.password, args.appkey, args.appid)
ConnectToCloud(command) ==
    /\ pc = "dispatch"
    /\ args.command = command
    /\ NoToken(args)
    /\ HasCloudCredentials(args)
    /\ \E o \in CloudOutcomes :
          /\ calls' = Append(calls,
                 [op |-> "connect_to_cloud", account |-> args.account,
                  password |-> args.password, appkey |-> args.appkey,
                  appid |-> args.appid, outcome |-> o])
          /\ IF o = "session"
               THEN /\ cloud' = "session"
                    /\ pc' = "connected"
                    /\ exit' = exit
               ELSE /\ cloud' = cloud
                    /\ pc' = "done"
                    /\ exit' = "exception"
    /\ UNCHANGED <<argv, args, appliance, appliances, idx, printed, log>>

\* the result of an appliance_state call with outcome o
ReadResult(o, ip, token, key) ==
    /\ appliance' = IF o = "handle"
                      THEN Handle(ip, token, key, Len(calls) + 1)
                      ELSE None
    /\ IF o = "IOError"
         THEN pc' = "done" /\ exit' = "exception"
         ELSE pc' = "have_result" /\ exit' = exit

\* appliance = appliance_state(args.ip, cloud=cloud)
ApplianceStateCloud(command) ==
    /\ pc = "connected"
    /\ args.command = command
    /\ \E o \in ReadOutcomes :
          /\ calls' = Append(calls,
                 [op |-> "appliance_state", ip |-> args.ip, via |-> "cloud",
                  token |-> "", key |-> "", outcome |-> o])
          /\ ReadResult(o, args.ip, "CLOUD_TOK", "CLOUD_KEY")
    /\ UNCHANGED <<argv, args, cloud, appliances, idx, printed, log>>

\* appliance = appliance_state(args.ip, token=args.token, key=args.key)
ApplianceStateDirect(command) ==
    /\ pc = "dispatch"
    /\ args.command = command
    /\ ~NoToken(args)
    /\ \E o \in ReadOutcomes :
          /\ calls' = Append(calls,
                 [op |-> "appliance_state", ip |-> args.ip, via |-> "direct",
                  token |-> args.token, key |-> args.key, outcome |-> o])
          /\ ReadResult(o, args.ip, args.token, args.key)
    /\ UNCHANGED <<argv, args, cloud, appliances, idx, printed, log>>

(***************************************************************************)
(* status                                                                  *)
(***************************************************************************)
StatusMissingCredentials == MissingCredentials("status")

StatusConnectToCloud == ConnectToCloud("status")

StatusApplianceStateCloud == ApplianceStateCloud("status")

StatusApplianceStateDirect == ApplianceStateDirect("status")

\* a slip of the status branch: the else of the set branch (none)
StatusReportSilent ==
    /\ pc = "have_result"
    /\ args.command = "status"
    /\ printed' = IF IsAppliance(appliance)
                    THEN Append(printed, Block(appliance, args.credentials))
                    ELSE printed
    /\ pc' = "done"
    /\ exit' = "ok"
    /\ UNCHANGED <<argv, args, cloud, appliance, appliances, idx, calls, log>>

\* if appliance is not None: output(appliance, args.credentials)
\* else: _LOGGER.error("Unable to get appliance status %s", args.ip)
StatusReport ==
    /\ pc = "have_result"
    /\ args.command = "status"
    /\ IF IsAppliance(appliance)
         THEN /\ printed' = Append(printed, Block(appliance, args.credentials))
              /\ log' = log
         ELSE /\ printed' = printed
              /\ log' = Append(log, UnableMsg)
    /\ pc' = "done"
    /\ exit' = "ok"
    /\ UNCHANGED <<argv, args, cloud, appliance, appliances, idx, calls>>

(***************************************************************************)
(* set                                                                     *)
(***************************************************************************)
SetMissingCredentials == MissingCredentials("set")

SetConnectToCloud == ConnectToCloud("set")

SetApplianceStateCloud == ApplianceStateCloud("set")

SetApplianceStateDirect == ApplianceStateDirect("set")

\* a slip of the set branch: set_state is called without the None test
SetStateUnguarded ==
    /\ pc = "have_result"
    /\ args.command = "set"
    /\ calls' = Append(calls,
           [op |-> "set_state", ip |-> args.ip,
            token |-> args.token, key |-> args.key,
            target_humidity |-> args.mutation.humidity,
            fan_speed |-> args.mutation.fan,
            mode |-> args.mutation.mode,
            ion_mode |-> args.mutation.ion,
            is_on |-> args.mutation.on,
            outcome |-> "ok"])
    /\ IF IsAppliance(appliance)
         THEN pc' = "mutated" /\ exit' = exit
         ELSE pc' = "done" /\ exit' = "exception"
    /\ UNCHANGED <<argv, args, cloud, appliance, appliances, idx, printed, log>>

\* if appliance is not None: appliance.set_state(target_humidity=..., ...)
SetState ==
    /\ pc = "have_result"
    /\ args.command = "set"
    /\ IsAppliance(appliance)
    /\ \E o \in MutateOutcomes :
          /\ calls' = Append(calls,
                 [op |-> "set_state", ip |-> appliance.ip,
                  token |-> appliance.token, key |-> appliance.key,
                  target_humidity |-> args.mutation.humidity,
                  fan_speed |-> args.mutation.fan,
                  mode |-> args.mutation.mode,
                  ion_mode |-> args.mutation.ion,
                  is_on |-> args.mutation.on,
                  outcome |-> o])
          /\ IF o = "ok"
               THEN pc' = "mutated" /\ exit' = exit
               ELSE pc' = "done" /\ exit' = "exception"
    /\ UNCHANGED <<argv, args, cloud, appliance, appliances, idx, printed, log>>

\* output(appliance, args.credentials), right after set_state returned
SetOutput ==
    /\ pc = "mutated"
    /\ printed' = Append(printed, Block(appliance, args.credentials))
    /\ pc' = "done"
    /\ exit' = "ok"
    /\ UNCHANGED <<argv, args, cloud, appliance, appliances, idx, calls, log>>

\* appliance is None: the if has no else, cli() returns
SetNoAppliance ==
    /\ pc = "have_result"
    /\ args.command = "set"
    /\ ~IsAppliance(appliance)
    /\ pc' = "done"
    /\ exit' = "ok"
    /\ UNCHANGED <<argv, args, cloud, appliance, appliances, idx, calls, printed, log>>

Next ==
    \/ ParseArgs
    \/ Discover
    \/ DiscoverOutput
    \/ DiscoverEnd
    \/ StatusMissingCredentials
    \/ StatusConnectToCloud
    \/ StatusApplianceStateCloud
    \/ StatusApplianceStateDirect
    \/ StatusReport
    \/ SetMissingCredentials
    \/ SetConnectToCloud
    \/ SetApplianceStateCloud
    \/ SetApplianceStateDirect
    \/ SetState
    \/ SetOutput
    \/ SetNoAppliance

Spec == Init /\ [][Next]_vars


(***************************************************************************)
(* Properties                                                              *)
(***************************************************************************)
\* positions in `calls` of the calls of collaborator op
CallsOf(op) == { i \in 1..Len(calls) : calls[i].op = op }

CloudCalls == CallsOf("connect_to_cloud")

\* appliance I/O: state reads and mutations
ApplianceIO == CallsOf("appliance_state") \cup CallsOf("set_state")

StatusOrSet == args.command \in {"status", "set"}

\* some state read of the command returned a handle
HandleObtained ==
    \E i \in CallsOf("appliance_state") : calls[i].outcome = "handle"

\* C1: a Status or Set command whose token is non-empty never calls
\* connect_to_cloud, whatever account, password, app key and app id are;
\* every state read is the direct one, made from the address, the supplied
\* token and the supplied key.
C1_TokenMeansNoCloudCall ==
    (StatusOrSet /\ args.token # "") =>
        /\ CloudCalls = {}
        /\ cloud = NoCloud
        /\ \A i \in CallsOf("appliance_state") :
              /\ calls[i].via = "direct"
              /\ calls[i].ip = args.ip
              /\ calls[i].token = args.token
              /\ calls[i].key = args.key
        /\ (pc = "done" /\ exit # "usage" => CallsOf("appliance_state") # {})

C1_Witness ==
    /\ args.command = "set"
    /\ args.token = "TOK"
    /\ args.account = "acc"
    /\ args.password = "pw"
    /\ pc = "done"
    /\ printed # << >>
    /\ CloudCalls = {}

\* C2: a Status or Set command with an empty token and a non-empty account
\* and password makes exactly one connect_to_cloud call, as its first
\* collaborator call: every state read or mutation comes after it (and after
\* it returned a session), and it is not repeated.
C2_OneCloudCallBeforeIO ==
    (StatusOrSet /\ args.token = "" /\ args.account # "" /\ args.password # "") =>
        /\ Cardinality(CloudCalls) <= 1
        /\ (pc # "dispatch" => CloudCalls = {1})
        /\ \A i \in ApplianceIO :
              /\ 1 \in CloudCalls
              /\ calls[1].outcome = "session"
              /\ i > 1

C2_Witness ==
    /\ args.command = "set"
    /\ args.token = ""
    /\ args.key = "KEY"
    /\ args.account = "acc"
    /\ args.password = "pw"
    /\ pc = "done"
    /\ printed # << >>
    /\ CloudCalls = {1}
    /\ Cardinality(ApplianceIO) = 2

\* C3: a Status or Set command with an empty token and an empty account or
\* password makes no collaborator call and prints no state block, and ends
\* having logged the missing-credentials error.
C3_MissingCredentialsNoCalls ==
    (StatusOrSet /\ args.token = "" /\ (args.account = "" \/ args.password = "")) =>
        /\ calls = << >>
        /\ printed = << >>
        /\ (pc = "done" => log = <<MissingMsg>> /\ exit = "ok")
        /\ pc \in {"dispatch", "done"}

C3_Witness ==
    /\ args.command = "status"
    /\ args.token = ""
    /\ args.key = "KEY"
    /\ args.account = "acc"
    /\ args.password = ""
    /\ pc = "done"
    /\ log = <<MissingMsg>>
    /\ calls = << >>

\* C4 (as claimed): in a Set command that printed a state block, a state
\* read was issued after the mutation call: the printed state was read
\* after set_state.
C4_ReadAfterMutation ==
    (args.command = "set" /\ printed # << >>) =>
        \E m \in CallsOf("set_state") :
            /\ \E r \in CallsOf("appliance_state") : r > m
            /\ printed[1].readAt > m

\* C5: in a Status command whose state read returned no handle, the failure
\* is logged and no state block is printed; a state block is printed only
\* for the handle the last state read returned.
C5_StatusReadFailureReported ==
    args.command = "status" =>
        /\ (printed # << >> =>
              /\ Len(printed) = 1
              /\ calls # << >>
              /\ calls[Len(calls)].op = "appliance_state"
              /\ calls[Len(calls)].outcome = "handle"
              /\ printed[1].readAt = Len(calls)
              /\ log = << >>)
        /\ (pc = "done" /\ calls # << >> /\ calls[Len(calls)].op = "appliance_state"
              /\ calls[Len(calls)].outcome = "none" =>
                 /\ printed = << >>
                 /\ log = <<UnableMsg>>)

C5_Witness ==
    /\ args.command = "status"
    /\ pc = "done"
    /\ Len(calls) = 2
    /\ calls[1].op = "connect_to_cloud"
    /\ calls[2].op = "appliance_state"
    /\ calls[2].outcome = "none"
    /\ printed = << >>
    /\ log = <<UnableMsg>>

\* C6: in a Set command set_state is called only right after a state read
\* that returned a handle; when no handle was obtained (credentials
\* missing, cloud authentication failed, or the read yielded none),
\* set_state is not called and no state block is printed.
C6_MutationNeedsHandle ==
    args.command = "set" =>
        /\ \A m \in CallsOf("set_state") :
              /\ m > 1
              /\ calls[m - 1].op = "appliance_state"
              /\ calls[m - 1].outcome = "handle"
        /\ (printed # << >> => CallsOf("set_state") # {})
        /\ (~HandleObtained => CallsOf("set_state") = {} /\ printed = << >>)

C6_Witness ==
    /\ args.command = "set"
    /\ pc = "done"
    /\ args.token = "TOK"
    /\ Len(calls) = 1
    /\ calls[1].op = "appliance_state"
    /\ calls[1].outcome = "none"
    /\ printed = << >>

\* C7 (as claimed): no state read or mutation of a Status or Set command is
\* made with a token and key that are not both non-empty.
C7_FullPairOnly ==
    StatusOrSet =>
        /\ \A i \in CallsOf("appliance_state") :
              calls[i].via = "direct" => calls[i].token # "" /\ calls[i].key # ""
        /\ \A i \in CallsOf("set_state") :
              calls[i].token # "" /\ calls[i].key # ""

\* C8 (as claimed): a Discover command whose account or password is the
\* empty string does not call find_appliances.
C8_DiscoverNeedsAccount ==
    (args.command = "discover" /\ (args.account = "" \/ args.password = "")) =>
        CallsOf("find_appliances") = {}

\* C9: a Discover command without --network calls find_appliances exactly
\* once, with the absent range list; when it returns, one state block is
\* printed per returned handle, in order, nothing is logged as an error and
\* the command ends normally.
C9_DiscoverWithoutNetworks ==
    (args.command = "discover" /\ args.network = NoNetworks) =>
        /\ (pc # "dispatch" =>
              /\ Len(calls) = 1
              /\ calls[1].op = "find_appliances"
              /\ calls[1].networks = NoNetworks)
        /\ log = << >>
        /\ (exit = "exception" => calls[1].outcome = "raised")
        /\ (pc = "done" /\ calls[1].outcome = "returned" =>
              /\ exit = "ok"
              /\ Len(printed) = Len(appliances)
              /\ \A i \in 1..Len(appliances) : printed[i].id = appliances[i].id)

C9_Witness ==
    /\ args.command = "discover"
    /\ args.network = NoNetworks
    /\ pc = "done"
    /\ exit = "ok"
    /\ Len(appliances) = 2
    /\ Len(printed) = 2

C9_WitnessEmpty ==
    /\ args.command = "discover"
    /\ args.network = NoNetworks
    /\ pc = "done"
    /\ exit = "ok"
    /\ appliances = << >>
    /\ printed = << >>

\* C10 (as claimed): a Set command that returns without having printed a
\* state block has logged an error.
C10_SetSurfacesFailure ==
    (args.command = "set" /\ pc = "done" /\ exit = "ok" /\ printed = << >>) =>
        log # << >>

====
